---------------------------- MODULE Spec2Model ----------------------------
(***************************************************************************)
(* Model of notebooks/crnn_audio_model.ipynb: the data cell (load, filter  *)
(* singleton classes, split), train_precomputed_crnn (epoch loop, AUC      *)
(* fallback, scheduler step, best checkpoint, early stopping, final        *)
(* reload) and the scoring function score.                                 *)
(*                                                                         *)
(* Abstractions.  A feature is named by its index in the archive, so X is  *)
(* a sequence of archive indices and y the sequence of the labels at those *)
(* indices.  Model parameters are named by the number of training epochs   *)
(* that produced them (0: freshly constructed, ForeignParams: parameters   *)
(* that were not produced by this run).  A validation AUC in [0, 1] is an  *)
(* integer number of steps of 1/AucMax.  Losses and accuracies are named   *)
(* by the (1-based) epoch that measured them.  What depends on the release *)
(* of scikit-learn (an AUC over one class raises or is nan) is fixed per   *)
(* behaviour by sklearn_nan.                                               *)
(***************************************************************************)
EXTENDS Integers, Sequences, FiniteSets, TLC

\* ------------------------------------------------------------------ bounds
MaxPat == 4        \* longest period of the environment's AUC pattern
MaxStall == 6      \* longest stall before the improvement of a stall pattern
AucMax == 60000    \* resolution of the AUC scale: AUC = k / AucMax
HighLevel == 50000 \* a starting quality at which one step is below 1e-4 relative
MaxLen == 5        \* longest label array in the archive
MaxClass == 2      \* largest class id in the archive
MaxCalls == 2      \* calls of score on the same two tables
MaxRows == 2       \* rows of the scored tables
MaxItems == 2      \* examples of a wrapped dataset
MaxDim == 2        \* largest height and width of a stored feature
MaxChan == 2       \* largest leading dimension of a stored 3-D feature

\* ------------------------------------------------------- program constants
num_epochs == 50
patience == 7
sched_patience == 3
batch_size == 512

\* ------------------------------------------------------------- Python values
Undefined == [tag |-> "undefined", val |-> <<>>]   \* name not bound in the kernel
NoneV == [tag |-> "None", val |-> <<>>]
Arr(s) == [tag |-> "array", val |-> s]
IsNone(v) == v.tag = "None"
IsBound(v) == v.tag # "undefined"

ForeignParams == 0 - 1
NoFile == [exists |-> FALSE, model_state_dict |-> 0, epoch |-> 0, val_auc |-> 0]
StaleFile == [exists |-> TRUE, model_state_dict |-> ForeignParams, epoch |-> 0, val_auc |-> 0]
EmptyHistory ==
    [train_loss |-> <<>>, train_acc |-> <<>>, val_loss |-> <<>>, val_acc |-> <<>>, val_auc |-> <<>>]
NoBundle == [exists |-> FALSE, model_state |-> 0, history |-> EmptyHistory]
NoResult == [tag |-> "undefined", model |-> 0, history |-> EmptyHistory]
NoneResult == [tag |-> "None", model |-> 0, history |-> EmptyHistory]
NoSched == [best_set |-> FALSE, best |-> 0, num_bad_epochs |-> 0, halvings |-> 0, steps |-> 0, last |-> 0]

NanAuc == 0 - 1   \* the nan that roc_auc_score may return
Outcomes == {"up", "same", "down", "fail"}
\* every pattern of a short period, and the patterns "k epochs without
\* improvement, then one improvement"
ShortPatterns == UNION {[1..n -> Outcomes] : n \in 1..MaxPat}
StallPatterns ==
    {[i \in 1..(k + 1) |-> IF i <= k THEN o ELSE "up"] : k \in 1..MaxStall, o \in {"same", "fail"}}
Patterns == ShortPatterns \cup StallPatterns

VARIABLES
    pc,            \* position in the notebook / in train_precomputed_crnn
    exc,           \* the exception that stopped the run ("" when none)
    archive,       \* "missing" | "corrupt" | "ok": the feature archive on disk
    raw_labels,    \* the labels array stored in the archive
    X, y,          \* notebook globals of the data cell
    X_train, y_train, X_val, y_val,
    num_classes,   \* local of train_precomputed_crnn
    epoch, best_auc, wait, val_auc, history,
    model,         \* parameters of the live model
    scheduler,     \* ReduceLROnPlateau state
    best_file,     \* the file at best_model_path
    ensemble_file, \* the final bundle
    result,        \* (precomputed_model, precomputed_label_mapping, precomputed_history)
    plotted, evaluated,
    pattern, level, auc_failed, stopped_early,   \* environment and bookkeeping
    sklearn_nan,   \* whether the installed scikit-learn answers nan to an AUC over one class
    solution, submission, score_out, score_calls, scored,   \* the scoring function's caller
    ds_features, ds_labels,   \* self.features, self.labels of a PrecomputedFeatureDataset
    item, len_out             \* what its __getitem__ and __len__ last returned

dataVars == <<archive, raw_labels, X, y, X_train, y_train, X_val, y_val>>
trainVars == <<num_classes, epoch, best_auc, wait, val_auc, history, model, scheduler,
               best_file, ensemble_file, level, auc_failed, stopped_early>>
cellVars == <<result, plotted, evaluated>>
envVars == <<pattern, sklearn_nan>>
scoreVars == <<solution, submission, score_out, score_calls, scored>>
datasetVars == <<ds_features, ds_labels, item, len_out>>
vars == <<pc, exc, dataVars, trainVars, cellVars, envVars, scoreVars, datasetVars>>

\* ------------------------------------------------------------ numpy helpers
Max(a, b) == IF a >= b THEN a ELSE b
Min(a, b) == IF a <= b THEN a ELSE b

\* np.unique(s), as a set
Unique(s) == {s[i] : i \in DOMAIN s}

\* number of entries of s equal to k
Count(s, k) == Cardinality({i \in DOMAIN s : s[i] = k})

\* np.bincount(s): counts of 0 .. max(s); empty for an empty array
bincount(s) ==
    IF s = <<>> THEN <<>>
    ELSE LET m == CHOOSE k \in Unique(s) : \A j \in Unique(s) : j <= k
         IN [k \in 1..(m + 1) |-> Count(s, k - 1)]

\* the classes kept when the threshold is one example
KeptClassesAll(label_counts) == {k - 1 : k \in {j \in DOMAIN label_counts : label_counts[j] >= 1}}

\* np.where(label_counts >= 2)[0]: the class ids with two or more examples
KeptClasses(label_counts) == {k - 1 : k \in {j \in DOMAIN label_counts : label_counts[j] >= 2}}

\* np.any(label_counts == 1)
AnySingleton(label_counts) == \E j \in DOMAIN label_counts : label_counts[j] = 1

\* np.isin(s, classes): the boolean mask, as the set of selected positions
IsinMask(s, classes) == {i \in DOMAIN s : s[i] \in classes}

\* a[mask]: the entries of a at the selected positions, in their order
RECURSIVE Take(_, _)
Take(a, mask) ==
    IF a = <<>> THEN <<>>
    ELSE LET n == Len(a)
             front == Take(SubSeq(a, 1, n - 1), mask)
         IN IF n \in mask THEN Append(front, a[n]) ELSE front

\* lines 113-121 applied to (X, y): the pair after singleton-class filtering
FilterSingletons(Xs, ys) ==
    LET label_counts == bincount(ys)
        valid_indices == IsinMask(ys, KeptClasses(label_counts))
    IN IF AnySingleton(label_counts)
       THEN <<Take(Xs, valid_indices), Take(ys, valid_indices)>>
       ELSE <<Xs, ys>>

\* train_test_split(test_size=0.2, stratify=y): sizes of the two sides
NTest(n) == (n + 4) \div 5
NTrain(n) == (4 * n) \div 5

\* whether the stratified split of ys raises ValueError
SplitRaises(ys) ==
    LET n == Len(ys)
        c == Cardinality(Unique(ys))
    IN \/ n = 0
       \/ NTrain(n) = 0
       \/ \E k \in Unique(ys) : Count(ys, k) < 2
       \/ NTrain(n) < c
       \/ NTest(n) < c

\* the sets of positions the stratified split may hold out for validation:
\* each class keeps floor or ceil of its proportional share in the training side
TestSets(ys) ==
    LET n == Len(ys)
    IN {S \in SUBSET (1..n) :
          /\ Cardinality(S) = NTest(n)
          /\ \A k \in Unique(ys) :
                LET ck == Count(ys, k)
                    tk == ck - Cardinality({i \in S : ys[i] = k})
                IN /\ tk * n >= ck * NTrain(n) - (n - 1)
                   /\ tk * n <= ck * NTrain(n) + (n - 1)}

\* the orders in which the positions of S may come out
Perms(S) ==
    {f \in [1..Cardinality(S) -> S] : \A i, j \in 1..Cardinality(S) : i # j => f[i] # f[j]}

\* a[idx]: the entries of a at the positions idx, in the order of idx
Index(a, idx) == [i \in 1..Len(idx) |-> a[idx[i]]]

\* what train_test_split may return for (Xs, ys): a stratified held-out set,
\* each side in a shuffled order, features and labels indexed alike
SplitOutcomes(Xs, ys) ==
    UNION {{[X_train |-> Index(Xs, train), y_train |-> Index(ys, train),
             X_val |-> Index(Xs, test), y_val |-> Index(ys, test)] :
              train \in Perms((1..Len(ys)) \ S), test \in Perms(S)} : S \in TestSets(ys)}

\* --------------------------------------------------------------- data cell
\* load_precomputed_features and the unpacking "X, y = ..."
LoadFeatures ==
    /\ pc = "load"
    /\ IF archive = "ok"
       THEN /\ X' = Arr([i \in 1..Len(raw_labels) |-> i])
            /\ y' = Arr(raw_labels)
            /\ pc' = "filter"
       ELSE /\ X' = NoneV
            /\ y' = NoneV
            /\ pc' = "call_train"
    /\ UNCHANGED <<exc, archive, raw_labels, X_train, y_train, X_val, y_val,
                   trainVars, cellVars, envVars, scoreVars, datasetVars>>

\* "if X is not None and y is not None": singleton-class filtering
FilterCell ==
    /\ pc = "filter"
    /\ LET r == FilterSingletons(X.val, y.val)
       IN /\ X' = Arr(r[1])
          /\ y' = Arr(r[2])
    /\ pc' = "split"
    /\ UNCHANGED <<exc, archive, raw_labels, X_train, y_train, X_val, y_val,
                   trainVars, cellVars, envVars, scoreVars, datasetVars>>

\* the stratified 80/20 split of the filtered arrays
SplitCell ==
    /\ pc = "split"
    /\ IF SplitRaises(y.val)
       THEN /\ pc' = "error"
            /\ exc' = "ValueError"
            /\ UNCHANGED <<X_train, y_train, X_val, y_val>>
       ELSE /\ \E o \in SplitOutcomes(X.val, y.val) :
                 /\ X_train' = Arr(o.X_train)
                 /\ y_train' = Arr(o.y_train)
                 /\ X_val' = Arr(o.X_val)
                 /\ y_val' = Arr(o.y_val)
            /\ pc' = "call_train"
            /\ exc' = exc
    /\ UNCHANGED <<archive, raw_labels, X, y, trainVars, cellVars, envVars, scoreVars, datasetVars>>

\* ------------------------------------------------- train_precomputed_crnn
\* the validation AUC the environment produces in the given epoch (0-based):
\* the pattern repeats with its period
OutcomeAt(p, e) == p[(e % Len(p)) + 1]

\* the measured model quality after an epoch with the given outcome
NextLevel(l, o) ==
    IF o = "up" THEN Min(l + 1, AucMax)
    ELSE IF o = "down" THEN Max(l - 1, 0)
    ELSE l

\* the except branch with the fallback dropped: always 0
ReusedAucZero(h) == 0

\* the except branch reusing more than what was recorded
ReusedAucAbove(h) == IF h.val_auc # <<>> THEN h.val_auc[Len(h.val_auc)] + 1 ELSE 1

\* "history['val_auc'][-1] if history['val_auc'] else 0"
ReusedAuc(h) == IF h.val_auc # <<>> THEN h.val_auc[Len(h.val_auc)] ELSE 0

\* the append of the except branch forgotten
AppendAucDropped(h, a) == h

\* "history['val_auc'].append(val_auc)", in the try and in the except branch
AppendAuc(h, a) == [h EXCEPT !.val_auc = Append(@, a)]

\* the comparison with a tie counted as an improvement
ImprovedOrEqual(v, b) == v >= b

\* "if val_auc > best_auc"
Improved(v, b) == v > b

\* the stall test off by one
StallLimitLate(w) == w > patience

\* "if wait >= patience"
StallLimit(w) == w >= patience

\* the loop running one epoch too many
HasNextEpochLate(e) == e < num_epochs

\* "for epoch in range(num_epochs)": whether another iteration follows epoch e
HasNextEpoch(e) == e + 1 < num_epochs

\* ReduceLROnPlateau.is_better, mode='max', threshold 1e-4 relative;
\* the first metric is better than the initial best of -inf
\* and no comparison with nan is true
IsBetter(sc, a) == a # NanAuc /\ ((~sc.best_set) \/ (10000 * a > 10001 * sc.best))

\* the scheduler reducing one epoch early
SchedStepEarly(sc, a) ==
    LET better == IsBetter(sc, a)
        bad == IF better THEN 0 ELSE sc.num_bad_epochs + 1
        reduce == bad >= sched_patience
    IN [best_set |-> sc.best_set \/ better,
        best |-> IF better THEN a ELSE sc.best,
        num_bad_epochs |-> IF reduce THEN 0 ELSE bad,
        halvings |-> IF reduce THEN sc.halvings + 1 ELSE sc.halvings,
        steps |-> sc.steps + 1,
        last |-> a]

\* ReduceLROnPlateau.step(metric), factor 0.5, patience 3, cooldown 0
SchedStep(sc, a) ==
    LET better == IsBetter(sc, a)
        bad == IF better THEN 0 ELSE sc.num_bad_epochs + 1
        reduce == bad > sched_patience
    IN [best_set |-> sc.best_set \/ better,
        best |-> IF better THEN a ELSE sc.best,
        num_bad_epochs |-> IF reduce THEN 0 ELSE bad,
        halvings |-> IF reduce THEN sc.halvings + 1 ELSE sc.halvings,
        steps |-> sc.steps + 1,
        last |-> a]

\* the call of the run-training cell up to the first epoch: the guard on the
\* split arrays, the model, the optimizer, the scheduler and the loop state
CallTrain ==
    /\ pc = "call_train"
    /\ IF ~IsBound(X_train) \/ (~IsNone(X_train) /\ ~IsBound(y_train))
       THEN /\ pc' = "error"
            /\ exc' = "NameError"
            /\ UNCHANGED <<trainVars, cellVars>>
       ELSE IF IsNone(X_train) \/ IsNone(y_train)
       THEN /\ result' = NoneResult
            /\ pc' = "plot_cell"
            /\ UNCHANGED <<exc, trainVars, plotted, evaluated>>
       ELSE /\ num_classes' = Cardinality(Unique(y.val))
            /\ model' = 0
            /\ scheduler' = NoSched
            /\ epoch' = 0
            /\ best_auc' = 0
            /\ wait' = 0
            /\ history' = EmptyHistory
            /\ pc' = "train"
            /\ UNCHANGED <<exc, val_auc, best_file, ensemble_file, level, auc_failed,
                           stopped_early, cellVars>>
    /\ UNCHANGED <<dataVars, envVars, scoreVars, datasetVars>>

\* the labels a loader hands to "criterion(outputs, y)" in one epoch: every
\* label of its dataset (no sample is dropped)
Targets(labels) == {labels[i] : i \in 1..Len(labels)}

\* whether the cross-entropy loss accepts the targets for an output of width n:
\* each target indexes a column of the output
TargetsInRange(ts, n) == \A t \in ts : t \in 0..(n - 1)

\* what the loss raises on a target that is no column of the output: IndexError
\* on the CPU, RuntimeError (device-side assert) on the GPU
TargetErrors == {"IndexError", "RuntimeError"}

\* whether the last training batch holds one sample: BatchNorm1d in
\* self.classifier then raises ValueError in "outputs = model(x)"
LastBatchOfOne(labels) == Len(labels) % batch_size = 1

\* the exceptions that may end the training phase over the given labels: the
\* batches come in a shuffled order, the short one last, and each batch goes
\* through the model before it reaches the loss
TrainErrors(labels, n) ==
    LET bad == ~TargetsInRange(Targets(labels), n)
    IN IF LastBatchOfOne(labels) /\ (Len(labels) < batch_size \/ ~bad) THEN {"ValueError"}
       ELSE IF LastBatchOfOne(labels) THEN {"ValueError"} \cup TargetErrors
       ELSE IF bad THEN TargetErrors
       ELSE {}

\* the training phase of one epoch: the optimizer changes the parameters and
\* the two training series get their entry; a batch of one sample or a target
\* outside the classifier output ends the run
TrainEpoch ==
    /\ pc = "train"
    /\ IF TrainErrors(y_train.val, num_classes) = {}
       THEN /\ model' = epoch + 1
            /\ history' = [history EXCEPT !.train_loss = Append(@, epoch + 1),
                                          !.train_acc = Append(@, epoch + 1)]
            /\ pc' = "validate"
            /\ exc' = exc
       ELSE /\ pc' = "error"
            /\ exc' \in TrainErrors(y_train.val, num_classes)
            /\ UNCHANGED <<model, history>>
    /\ UNCHANGED <<dataVars, num_classes, epoch, best_auc, wait, val_auc, scheduler,
                   best_file, ensemble_file, level, auc_failed, stopped_early,
                   cellVars, envVars, scoreVars, datasetVars>>

\* whether roc_auc_score is undefined on the validation targets: a column of
\* all_targets[:, pos] with one class, i.e. validation labels that are all equal
AucUndefined(labels) == Cardinality(Unique(labels)) < 2

\* what the AUC computation of the given epoch (0-based) does: an undefined AUC
\* raises ValueError ("fail") or is nan, by the release of scikit-learn; a
\* defined one follows the environment's pattern
Outcome(e) ==
    IF AucUndefined(y_val.val) THEN (IF sklearn_nan THEN "nan" ELSE "fail")
    ELSE OutcomeAt(pattern, e)

\* the validation phase and the AUC computation with its except branch
ValidateEpoch ==
    /\ pc = "validate"
    /\ IF TargetsInRange(Targets(y_val.val), num_classes)
       THEN LET o == Outcome(epoch)
                h == [history EXCEPT !.val_loss = Append(@, epoch + 1),
                                     !.val_acc = Append(@, epoch + 1)]
                a == IF o = "fail" THEN ReusedAuc(h)
                     ELSE IF o = "nan" THEN NanAuc
                     ELSE NextLevel(level, o)
            IN /\ level' = NextLevel(level, o)
               /\ auc_failed' = (o = "fail")
               /\ val_auc' = a
               /\ history' = AppendAuc(h, a)
               /\ pc' = "sched"
               /\ exc' = exc
       ELSE /\ pc' = "error"
            /\ exc' \in TargetErrors
            /\ UNCHANGED <<level, auc_failed, val_auc, history>>
    /\ UNCHANGED <<dataVars, num_classes, epoch, best_auc, wait, model, scheduler,
                   best_file, ensemble_file, stopped_early, cellVars, envVars, scoreVars, datasetVars>>

\* "scheduler.step(val_auc)"
SchedulerStep ==
    /\ pc = "sched"
    /\ scheduler' = SchedStep(scheduler, val_auc)
    /\ pc' = "decide"
    /\ UNCHANGED <<exc, dataVars, num_classes, epoch, best_auc, wait, val_auc, history, model,
                   best_file, ensemble_file, level, auc_failed, stopped_early,
                   cellVars, envVars, scoreVars, datasetVars>>

\* "Save best model": checkpoint or stall, early stopping, and the loop's step
CheckpointDecision ==
    /\ pc = "decide"
    /\ IF Improved(val_auc, best_auc)
       THEN /\ best_auc' = val_auc
            /\ best_file' = [exists |-> TRUE, model_state_dict |-> model,
                             epoch |-> epoch, val_auc |-> val_auc]
            /\ wait' = 0
            /\ stopped_early' = FALSE
       ELSE /\ wait' = wait + 1
            /\ stopped_early' = StallLimit(wait + 1)
            /\ UNCHANGED <<best_auc, best_file>>
    /\ IF ~stopped_early' /\ HasNextEpoch(epoch)
       THEN /\ epoch' = epoch + 1
            /\ pc' = "train"
       ELSE /\ epoch' = epoch
            /\ pc' = "terminate"
    /\ UNCHANGED <<exc, dataVars, num_classes, val_auc, history, model, scheduler,
                   ensemble_file, level, auc_failed, cellVars, envVars, scoreVars, datasetVars>>

\* "Load best model", the final bundle and the return
Terminate ==
    /\ pc = "terminate"
    /\ IF best_file.exists
       THEN /\ model' = best_file.model_state_dict
            /\ ensemble_file' = [exists |-> TRUE, model_state |-> best_file.model_state_dict,
                                 history |-> history]
            /\ result' = [tag |-> "triple", model |-> best_file.model_state_dict,
                          history |-> history]
            /\ pc' = "plot_cell"
            /\ exc' = exc
       ELSE /\ pc' = "error"
            /\ exc' = "FileNotFoundError"
            /\ UNCHANGED <<model, ensemble_file, result>>
    /\ UNCHANGED <<dataVars, num_classes, epoch, best_auc, wait, val_auc, history, scheduler,
                   best_file, level, auc_failed, stopped_early, plotted, evaluated,
                   envVars, scoreVars, datasetVars>>

\* "if precomputed_history is not None: plot_history(precomputed_history)"
PlotCell ==
    /\ pc = "plot_cell"
    /\ plotted' = (result.tag = "triple")
    /\ pc' = "eval_cell"
    /\ UNCHANGED <<exc, dataVars, trainVars, result, evaluated, envVars, scoreVars, datasetVars>>

\* "if precomputed_model is not None: evaluate_precomputed_model(precomputed_model)"
EvalCell ==
    /\ pc = "eval_cell"
    /\ evaluated' = (result.tag = "triple")
    /\ pc' = "end"
    /\ UNCHANGED <<exc, dataVars, trainVars, result, plotted, envVars, scoreVars, datasetVars>>

\* ------------------------------------------------------------------- score
\* A table maps its column names to columns [dtype, data].
RowId == "row_id"
LabelCols == {"c1", "c2"}
DTypes == {"int", "float", "bool", "object"}

\* "del table[name]"
DropColumn(t, name) == [c \in (DOMAIN t) \ {name} |-> t[c]]

\* pandas.api.types.is_numeric_dtype: numbers and booleans
IsNumericDtype(d) == d \in {"int", "float", "bool"}

\* the dtype of table.values: the common dtype of the columns; pandas does not
\* mix booleans with numbers, nor anything with objects, but as object
ValuesDtype(t) ==
    LET ds == {t[c].dtype : c \in DOMAIN t}
    IN IF ds = {} THEN "float"
       ELSE IF Cardinality(ds) = 1 THEN CHOOSE d \in ds : TRUE
       ELSE IF "object" \in ds \/ "bool" \in ds THEN "object"
       ELSE "float"

\* the sum of a column of numbers
RECURSIVE SumSeq(_)
SumSeq(q) == IF q = <<>> THEN 0 ELSE q[Len(q)] + SumSeq(SubSeq(q, 1, Len(q) - 1))

\* "solution_sums[solution_sums > 0].index.values"
ScoredColumns(t) == {c \in DOMAIN t : SumSeq(t[c].data) > 0}

\* whether roc_auc_score is undefined on the scored columns: one of them
\* holds one class
ScoreUndefined(t) == \E c \in ScoredColumns(t) : Cardinality(Unique(t[c].data)) < 2

\* whether the body of score gets as far as the call of roc_auc_score
CallsAuc(sol, sub) == IsNumericDtype(ValuesDtype(sub)) /\ ScoredColumns(sol) # {}

\* kaggle_metric_utilities.safe_call_score(roc_auc_score, ...): the metric's
\* value; an undefined AUC is the value nan or, by the release of scikit-learn,
\* a ValueError whose message holds no digit, which safe_call_score turns into
\* its ParticipantVisibleError
SafeCallScore(sol) ==
    IF ScoreUndefined(sol) /\ ~sklearn_nan THEN "ParticipantVisibleError" ELSE "value"

\* the outcome of the body of score after the two del statements
ScoreBody(sol, sub) ==
    IF ~IsNumericDtype(ValuesDtype(sub)) THEN "ParticipantVisibleError"
    ELSE IF ScoredColumns(sol) = {} THEN "AssertionError"
    ELSE SafeCallScore(sol)

\* one call score(solution, submission, RowId) on the caller's two tables
ScoreCall ==
    /\ pc = "score"
    /\ score_calls < MaxCalls
    /\ score_calls' = score_calls + 1
    /\ IF RowId \notin DOMAIN solution
       THEN /\ score_out' = Append(score_out, "KeyError")
            /\ scored' = {}
            /\ UNCHANGED <<solution, submission>>
       ELSE IF RowId \notin DOMAIN submission
       THEN /\ solution' = DropColumn(solution, RowId)
            /\ score_out' = Append(score_out, "KeyError")
            /\ scored' = {}
            /\ UNCHANGED submission
       ELSE /\ solution' = DropColumn(solution, RowId)
            /\ submission' = DropColumn(submission, RowId)
            /\ score_out' = Append(score_out, ScoreBody(solution', submission'))
            /\ scored' = IF CallsAuc(solution', submission')
                         THEN ScoredColumns(solution') ELSE {}
    /\ UNCHANGED <<pc, exc, dataVars, trainVars, cellVars, envVars, datasetVars>>

\* ------------------------------------------------ PrecomputedFeatureDataset
\* A stored feature is [shape, id]: the shape of the array and the archive entry
\* it holds.  Positions are 1-based here and 0-based in the notebook.
NoItem == [idx |-> 0, feature |-> [shape |-> <<>>, id |-> 0, dtype |-> ""], label |-> 0]
NoLen == 0 - 1

\* the new axis appended instead of prepended
AddChannelLast(f) == IF Len(f.shape) = 2 THEN [f EXCEPT !.shape = @ \o <<1>>] ELSE f

\* "if len(feature.shape) == 2: feature = feature[np.newaxis, :, :]"
AddChannel(f) == IF Len(f.shape) = 2 THEN [f EXCEPT !.shape = <<1>> \o @] ELSE f

\* torch.tensor(feature, dtype=torch.float32): a copy with the same shape
FeatureTensor(f) == [shape |-> f.shape, id |-> f.id, dtype |-> "float32"]

\* __getitem__(idx)
GetItem(features, labels, idx) ==
    [idx |-> idx, feature |-> FeatureTensor(AddChannel(features[idx])), label |-> labels[idx]]

\* __len__()
DatasetLen(features) == Len(features)

\* a call dataset[idx] with an index in range
DatasetGetItem ==
    /\ pc = "dataset"
    /\ \E idx \in 1..DatasetLen(ds_features) :
          item' = GetItem(ds_features, ds_labels, idx)
    /\ UNCHANGED <<pc, exc, dataVars, trainVars, cellVars, envVars, scoreVars,
                   ds_features, ds_labels, len_out>>

\* a call len(dataset)
DatasetLenCall ==
    /\ pc = "dataset"
    /\ len_out' = DatasetLen(ds_features)
    /\ UNCHANGED <<pc, exc, dataVars, trainVars, cellVars, envVars, scoreVars,
                   ds_features, ds_labels, item>>

\* ------------------------------------------------------------ specifications
IdColumn == [dtype |-> "object", data |-> [i \in 1..MaxRows |-> i]]
IdleTable == [c \in {RowId} |-> IdColumn]

\* the tables a caller may hand to score: indicator columns in the solution,
\* one column per class of any dtype in the submission
SolutionTables ==
    {[c \in LabelCols \cup {RowId} |->
        IF c = RowId THEN IdColumn ELSE [dtype |-> "int", data |-> f[c]]] :
        f \in [LabelCols -> [1..MaxRows -> {0, 1}]]}
SubmissionTables ==
    {[c \in LabelCols \cup {RowId} |->
        IF c = RowId THEN IdColumn ELSE [dtype |-> g[c], data |-> [i \in 1..MaxRows |-> i]]] :
        g \in [LabelCols -> DTypes]}

\* the stored arrays a dataset may wrap: every feature of an array has the same
\* shape, of one, two or three dimensions
FeatureShapes ==
    {<<w>> : w \in 1..MaxDim}
    \cup {<<h, w>> : h \in 1..MaxDim, w \in 1..MaxDim}
    \cup {<<c, h, w>> : c \in 1..MaxChan, h \in 1..MaxDim, w \in 1..MaxDim}
FeatureArrays ==
    {[i \in 1..n |-> [shape |-> sh, id |-> i]] : n \in 0..MaxItems, sh \in FeatureShapes}

LabelArrays == UNION {[1..n -> 0..MaxClass] : n \in 0..MaxLen}

\* the AUC patterns used when the data cell is explored: one run that
\* checkpoints and stops early, one that never improves
DataPatterns == {<<"up", "down">>, <<"same">>}

\* the labels of the archive used when the training loop is explored: one
\* singleton class, and two classes that both reach the validation set
RunLabels == <<0, 0, 0, 2, 1, 1, 1>>

\* the arrays the data cell leaves for them
RunData == FilterSingletons([i \in 1..Len(RunLabels) |-> i], RunLabels)

\* their split under random_state=42
RunSplit ==
    [X_train |-> <<2, 7, 1, 6>>, y_train |-> <<0, 1, 0, 1>>,
     X_val |-> <<5, 3>>, y_val |-> <<1, 0>>]

InitKernel ==
    /\ exc = ""
    /\ num_classes = 0 /\ epoch = 0 /\ best_auc = 0 /\ wait = 0 /\ val_auc = 0
    /\ history = EmptyHistory
    /\ model = 0
    /\ scheduler = NoSched
    /\ ensemble_file = NoBundle
    /\ result = NoResult
    /\ plotted = FALSE /\ evaluated = FALSE
    /\ auc_failed = FALSE /\ stopped_early = FALSE
    /\ score_out = <<>> /\ score_calls = 0 /\ scored = {}
    /\ item = NoItem /\ len_out = NoLen

InitCell ==
    /\ X = Undefined /\ y = Undefined
    /\ X_train = Undefined /\ y_train = Undefined
    /\ X_val = Undefined /\ y_val = Undefined

\* the training loop under every AUC pattern, with or without a checkpoint
\* file left at best_model_path by an earlier run: the kernel when the data
\* cell has run on the archive and the run-training cell is about to
Init ==
    /\ InitKernel
    /\ pc = "call_train"
    /\ archive = "ok"
    /\ raw_labels = RunLabels
    /\ X = Arr(RunData[1]) /\ y = Arr(RunData[2])
    /\ RunSplit \in SplitOutcomes(RunData[1], RunData[2])
    /\ X_train = Arr(RunSplit.X_train) /\ y_train = Arr(RunSplit.y_train)
    /\ X_val = Arr(RunSplit.X_val) /\ y_val = Arr(RunSplit.y_val)
    /\ pattern \in Patterns
    /\ sklearn_nan = FALSE
    /\ level \in {0, HighLevel}
    /\ best_file \in {NoFile, StaleFile}
    /\ solution = IdleTable /\ submission = IdleTable
    /\ ds_features = <<>> /\ ds_labels = <<>>

\* the data cell under every archive and label array
InitData ==
    /\ InitKernel /\ InitCell
    /\ sklearn_nan \in BOOLEAN
    /\ pc = "load"
    /\ archive \in {"missing", "corrupt", "ok"}
    /\ raw_labels \in LabelArrays
    /\ pattern \in DataPatterns
    /\ level = 0
    /\ best_file \in {NoFile, StaleFile}
    /\ solution = IdleTable /\ submission = IdleTable
    /\ ds_features = <<>> /\ ds_labels = <<>>

\* the data cell alone under every archive and label array
InitDataCell ==
    /\ InitKernel /\ InitCell
    /\ sklearn_nan = FALSE
    /\ pc = "load"
    /\ archive \in {"missing", "corrupt", "ok"}
    /\ raw_labels \in LabelArrays
    /\ pattern = <<"same">>
    /\ level = 0
    /\ best_file = NoFile
    /\ solution = IdleTable /\ submission = IdleTable
    /\ ds_features = <<>> /\ ds_labels = <<>>

\* the scoring function under every pair of tables
InitScore ==
    /\ InitKernel /\ InitCell
    /\ sklearn_nan \in BOOLEAN
    /\ pc = "score"
    /\ archive = "ok"
    /\ raw_labels = RunLabels
    /\ pattern = <<"same">>
    /\ level = 0
    /\ best_file = NoFile
    /\ solution \in SolutionTables
    /\ submission \in SubmissionTables
    /\ ds_features = <<>> /\ ds_labels = <<>>

\* a dataset over every stored array and label array of the same length
InitDataset ==
    /\ InitKernel /\ InitCell
    /\ sklearn_nan = FALSE
    /\ pc = "dataset"
    /\ archive = "ok"
    /\ raw_labels = RunLabels
    /\ pattern = <<"same">>
    /\ level = 0
    /\ best_file = NoFile
    /\ solution = IdleTable /\ submission = IdleTable
    /\ ds_features \in FeatureArrays
    /\ ds_labels \in [1..Len(ds_features) -> 0..MaxClass]

Next ==
    \/ LoadFeatures
    \/ FilterCell
    \/ SplitCell
    \/ CallTrain
    \/ TrainEpoch
    \/ ValidateEpoch
    \/ SchedulerStep
    \/ CheckpointDecision
    \/ Terminate
    \/ PlotCell
    \/ EvalCell

NextDataCell ==
    \/ LoadFeatures
    \/ FilterCell
    \/ SplitCell

NextRun ==
    \/ CallTrain
    \/ TrainEpoch
    \/ ValidateEpoch
    \/ SchedulerStep
    \/ CheckpointDecision
    \/ Terminate
    \/ PlotCell
    \/ EvalCell

NextScore == ScoreCall

NextDataset ==
    \/ DatasetGetItem
    \/ DatasetLenCall

Spec == Init /\ [][NextRun]_vars
FairSpec == Init /\ [][NextRun]_vars /\ WF_vars(NextRun)
SpecData == InitData /\ [][Next]_vars
SpecDataCell == InitDataCell /\ [][NextDataCell]_vars
SpecScore == InitScore /\ [][NextScore]_vars
SpecDataset == InitDataset /\ [][NextDataset]_vars

\* ------------------------------------------------------------------ claims
\* the largest of 0 and the first n entries of q
RECURSIVE MaxUpTo(_, _)
MaxUpTo(q, n) == IF n = 0 THEN 0 ELSE Max(q[n], MaxUpTo(q, n - 1))

\* whether entry i of q is strictly greater than 0 and every earlier entry
StrictlyBest(q, i) == q[i] > MaxUpTo(q, i - 1)

\* the number of entries at the end of q that are not StrictlyBest: the last
\* StrictlyBest entry is the first occurrence of the largest entry, if that is
\* above 0
Streak(q) ==
    LET n == Len(q)
        m == MaxUpTo(q, n)
        firsts == {i \in 1..n : q[i] = m /\ \A j \in 1..(i - 1) : q[j] < m}
    IN IF m = 0 THEN n ELSE n - (CHOOSE i \in firsts : TRUE)

IsPrefix(q, r) == Len(q) <= Len(r) /\ SubSeq(r, 1, Len(q)) = q

Series == {"train_loss", "train_acc", "val_loss", "val_acc", "val_auc"}
InLoop == pc \in {"train", "validate", "sched", "decide"}
LeftTerminate == pc \in {"plot_cell", "eval_cell", "end"} \/ (pc = "error" /\ exc = "FileNotFoundError")

\* C1: the checkpoint file changes only in the decision step of an epoch whose
\* validation AUC is strictly greater than every AUC seen before in the run and
\* than 0; the decision step of any other epoch leaves the file and best_auc
\* as they are and adds one to the stall counter.
C1_CheckpointOnlyOnStrictImprovement ==
    [][/\ best_file' # best_file =>
            /\ pc = "decide"
            /\ StrictlyBest(history.val_auc, epoch + 1)
            /\ best_file'.val_auc = val_auc /\ best_file'.epoch = epoch
       /\ (pc = "decide" /\ ~StrictlyBest(history.val_auc, epoch + 1)) =>
            /\ best_file' = best_file
            /\ best_auc' = best_auc
            /\ wait' = wait + 1]_vars

\* an epoch that tied with the best AUC of an earlier epoch of the run has
\* been decided without a write
C1_Witness ==
    /\ pc \in {"train", "terminate"}
    /\ wait >= 1
    /\ best_auc > 0
    /\ val_auc = best_auc
    /\ best_file.exists /\ best_file.model_state_dict >= 1
    /\ best_file.epoch < Len(history.val_auc) - 1

\* C2: once the run has left the epoch loop and the Terminate step, the
\* live model holds parameters checkpointed during this run, those of the epoch
\* with the highest validation AUC of the run.
C2_ReloadsBestOfRun ==
    LeftTerminate =>
        /\ exc = ""
        /\ model >= 1
        /\ history.val_auc[model] = MaxUpTo(history.val_auc, Len(history.val_auc))

\* C3: the stall counter is the current streak of non-improving epochs, the
\* loop goes on only while the streak is below 7, and it is left early exactly
\* when the streak is 7 (otherwise only after the 50th epoch).
C3_EarlyStopExactlyAtPatience ==
    /\ pc \in {"train", "validate", "terminate"} =>
            wait = Streak(history.val_auc)
    /\ InLoop => wait < 7 /\ ~stopped_early
    /\ pc = "terminate" =>
            /\ stopped_early <=> (wait = 7)
            /\ wait <= 7
            /\ ~stopped_early => Len(history.val_auc) = 50

\* the loop was left by early stopping after an improvement had reset the streak
C3_Witness ==
    /\ pc = "terminate"
    /\ stopped_early
    /\ best_auc > 0
    /\ Len(history.val_auc) > 8
    /\ best_file.epoch > 0

\* C4: no run executes more than 50 epochs, and every run reaches the
\* Terminate step.
C4_RunTerminates ==
    /\ [](Len(history.train_loss) <= 50 /\ epoch < 50)
    /\ <>(pc = "terminate")

\* the epoch budget was exhausted without early stopping
C4_Witness ==
    /\ pc = "terminate"
    /\ ~stopped_early
    /\ epoch = 49
    /\ wait > 0

\* C5: every step extends each of the five series (no entry is changed or
\* removed), and when an epoch's decision is taken each series has one entry per
\* epoch run so far.
C5_HistoryOneEntryPerEpoch ==
    [][/\ \A k \in Series : IsPrefix(history[k], history'[k])
       /\ pc = "decide" => \A k \in Series : Len(history[k]) = epoch + 1
       /\ pc' = "train" => \A k \in Series : Len(history'[k]) = epoch']_vars

\* early stopping triggered in an epoch whose AUC computation failed
C5_Witness ==
    /\ pc = "terminate"
    /\ stopped_early
    /\ auc_failed
    /\ epoch > 7
    /\ \A k \in Series : Len(history[k]) = epoch + 1

\* C6: in an epoch whose AUC computation failed, the value used and
\* recorded is the value recorded for the previous epoch (0 in the first epoch),
\* and the scheduler is stepped with it before the checkpoint decision.
C6_FailedAucReusesPrevious ==
    (auc_failed /\ pc \in {"sched", "decide"}) =>
        /\ exc = ""
        /\ Len(history.val_auc) = epoch + 1
        /\ val_auc = (IF epoch = 0 THEN 0 ELSE history.val_auc[epoch])
        /\ history.val_auc[epoch + 1] = val_auc
        /\ pc = "decide" => (scheduler.steps = epoch + 1 /\ scheduler.last = val_auc)

\* a failed computation reused a nonzero AUC and reached the decision
C6_Witness ==
    /\ pc = "decide"
    /\ auc_failed
    /\ epoch > 0
    /\ val_auc > 0

\* C7: with a missing or unreadable archive no exception is raised, no
\* filtering, split or training happens, the call returns (None, None, None) and
\* the plot and evaluation are skipped; no file is written (the checkpoint file
\* is absent or the one an earlier run left).
C7_LoadFailureSkipsRun ==
    archive # "ok" =>
        /\ exc = "" /\ pc # "error"
        /\ pc \notin {"filter", "split", "train", "validate", "sched", "decide", "terminate"}
        /\ pc \in {"plot_cell", "eval_cell", "end"} => result = NoneResult
        /\ ~plotted /\ ~evaluated
        /\ best_file \in {NoFile, StaleFile} /\ ensemble_file = NoBundle

\* C8: after singleton-class filtering X holds, in their order, exactly
\* the archive indices whose class occurs at least twice in the archive, y holds
\* their labels, and every class of y has at least 2 examples.
C8_FilterRemovesExactlySingletons ==
    (archive = "ok" /\ pc \notin {"load", "filter"}) =>
        /\ Len(X.val) = Len(y.val)
        /\ \A i \in DOMAIN y.val : y.val[i] = raw_labels[X.val[i]]
        /\ \A i, j \in DOMAIN X.val : i < j => X.val[i] < X.val[j]
        /\ Unique(X.val) = {i \in DOMAIN raw_labels : Count(raw_labels, raw_labels[i]) >= 2}
        /\ \A k \in Unique(y.val) : Count(y.val, k) >= 2

\* filtering removed a singleton class between kept examples of another class
C8_Witness ==
    /\ archive = "ok"
    /\ pc = "split"
    /\ Len(raw_labels) >= 4
    /\ Len(y.val) >= 2
    /\ Len(y.val) < Len(raw_labels)
    /\ \E i \in DOMAIN X.val : i < Len(X.val) /\ X.val[i + 1] > X.val[i] + 1

\* C9: a call of score leaves the caller's two tables as they were.
C9_ScoreLeavesTablesUnchanged ==
    [][solution' = solution /\ submission' = submission]_vars

\* C10: the first call of score on two tables raises
\* ParticipantVisibleError exactly when some submission column other than the row
\* identifier is not numeric.
C10_ErrorIffNonNumericColumn ==
    score_calls >= 1 =>
        ((score_out[1] = "ParticipantVisibleError") <=>
            (\E c \in LabelCols : ~IsNumericDtype(submission[c].dtype)))

\* the label columns of the solution with at least one positive row
PositiveColumns == {c \in LabelCols : \E i \in DOMAIN solution[c].data : solution[c].data[i] > 0}

\* C11: when every submission column other than the row identifier is
\* numeric, the first call of score hands exactly the solution's label columns with
\* a positive row to the ROC-AUC computation, and fails with an assertion when
\* there is none.
C11_ScoresExactlyPositiveColumns ==
    (score_calls = 1 /\ \A c \in LabelCols : IsNumericDtype(submission[c].dtype)) =>
        IF PositiveColumns = {}
        THEN score_out[1] = "AssertionError"
        ELSE score_out[1] # "AssertionError" /\ scored = PositiveColumns

\* the same with the submission's columns all integers or all floats or a mix
\* of the two, which is where the statement holds of the code
ScoresPositiveColumnsOfNumbers ==
    (score_calls = 1 /\ \A c \in LabelCols : submission[c].dtype \in {"int", "float"}) =>
        IF PositiveColumns = {}
        THEN score_out[1] = "AssertionError"
        ELSE score_out[1] # "AssertionError" /\ scored = PositiveColumns /\ RowId \notin scored

\* C12 as stated: every call dataset[idx] with idx in range, on a stored
\* feature of two or of three dimensions, returns a feature tensor of three
\* dimensions whose first is 1 and whose last two are the height and width of the
\* stored feature idx, with the label stored at idx; len(dataset) is the number
\* of stored examples; no call changes the stored arrays.
C12_ItemHasSingletonChannel ==
    [][/\ ds_features' = ds_features /\ ds_labels' = ds_labels
       /\ (item' # item /\ Len(ds_features[item'.idx].shape) \in {2, 3}) =>
            LET stored == ds_features[item'.idx].shape
                got == item'.feature.shape
            IN /\ item'.idx \in 1..Len(ds_labels)
               /\ Len(got) = 3
               /\ got[1] = 1
               /\ got[2] = stored[Len(stored) - 1]
               /\ got[3] = stored[Len(stored)]
               /\ item'.feature.id = ds_features[item'.idx].id
               /\ item'.label = ds_labels[item'.idx]
       /\ len_out' # len_out => len_out' = Len(ds_labels)]_vars

\* C12 amended: every call dataset[idx] with idx in range returns the stored
\* feature idx with the label stored at idx; of a feature of two dimensions the
\* tensor has three, the first 1 and the last two the stored height and width;
\* of any other feature the tensor has the stored shape, so its first dimension
\* is 1 only where the stored one is; len(dataset) is the number of stored
\* examples; no call changes the stored arrays.
C12_ChannelAddedToTwoDimOnly ==
    [][/\ ds_features' = ds_features /\ ds_labels' = ds_labels
       /\ item' # item =>
            LET stored == ds_features[item'.idx].shape
                got == item'.feature.shape
            IN /\ item'.idx \in 1..Len(ds_labels)
               /\ Len(stored) = 2 =>
                    /\ Len(got) = 3
                    /\ got[1] = 1
                    /\ got[2] = stored[1]
                    /\ got[3] = stored[2]
               /\ Len(stored) # 2 => got = stored
               /\ item'.feature.id = ds_features[item'.idx].id
               /\ item'.feature.dtype = "float32"
               /\ item'.label = ds_labels[item'.idx]
       /\ len_out' # len_out => len_out' = Len(ds_labels)]_vars

\* the second example of an array of three-dimensional features with two
\* channels was fetched with its two channels, and the length asked
C12_Witness ==
    /\ item.idx = 2
    /\ ds_features[2].shape = <<2, 2, 1>>
    /\ item.feature.shape = <<2, 2, 1>>
    /\ item.label = ds_labels[2]
    /\ len_out = 2

\* the epoch (1-based) of the last entry of q above every earlier entry, the
\* first epoch counting as one: the first occurrence of the largest entry
LastRise(q) ==
    LET m == MaxUpTo(q, Len(q))
    IN CHOOSE i \in 1..Len(q) : q[i] = m /\ \A k \in 1..(i - 1) : q[k] < m

\* whether entry j of q is the first, or above every earlier entry by more
\* than 1e-4 relative
ClearRise(q, j) == j = 1 \/ 10000 * q[j] > 10001 * MaxUpTo(q, j - 1)

\* whether entry i of q is not above the earlier entries by more than 1e-4 relative
WithinThreshold(q, i) == i > 1 /\ 10000 * q[i] <= 10001 * MaxUpTo(q, i - 1)

\* the scheduler is stepped once per epoch, with the epoch's recorded AUC,
\* before the decision
SteppedOncePerEpoch ==
    /\ pc \in {"train", "validate", "sched"} => scheduler.steps = epoch
    /\ pc = "decide" =>
            /\ scheduler.steps = epoch + 1
            /\ scheduler.last = val_auc
            /\ scheduler.last = history.val_auc[epoch + 1]

C14_TargetsAreClassIndices ==
    /\ (pc = "train" /\ ~LastBatchOfOne(y_train.val)) =>
            TargetsInRange(Targets(y_train.val), num_classes)
    /\ pc = "validate" => TargetsInRange(Targets(y_val.val), num_classes)
    /\ exc \notin TargetErrors

\* the number of consecutive epochs, up to the last validated one, whose AUC
\* computation failed
FailRun ==
    LET done == Len(history.val_auc)
        ok == {i \in 0..(done - 1) : Outcome(i) # "fail"}
    IN IF ok = {} THEN done
       ELSE done - 1 - (CHOOSE m \in ok : \A i \in ok : i <= m)

\* C15: an epoch whose AUC computation failed is not an improvement: the
\* reused value is at most the best AUC, the decision writes no checkpoint and
\* adds one to the stall counter, and leaves the loop when the counter reaches
\* the patience; so at most patience consecutive epochs reuse an AUC, and after
\* that many the loop is not entered again.
C15_FailedEpochNeverImproves ==
    [][/\ (pc = "decide" /\ auc_failed) =>
            /\ val_auc <= best_auc
            /\ best_file' = best_file
            /\ best_auc' = best_auc
            /\ wait' = wait + 1
            /\ wait' >= FailRun
            /\ wait' >= patience => (pc' = "terminate" /\ stopped_early')
       /\ FailRun <= patience
       /\ (FailRun = patience /\ pc \notin {"sched", "decide"}) => pc \notin {"train", "validate"}]_vars

\* the run stopped early at the end of 7 consecutive epochs with a failed AUC
C15_Witness ==
    /\ pc = "terminate"
    /\ stopped_early
    /\ auc_failed
    /\ FailRun = patience
    /\ wait = patience

=============================================================================
